---------------------------- MODULE Spec2Model ----------------------------
(***************************************************************************)
(* Model of the DomoHub plugin runtime: the per-plugin device registry and *)
(* event bus of BasePlugin (src/src/plugins/base.py), the two example      *)
(* integrations (src/src/plugins/examples) and the PluginManager           *)
(* (src/src/plugins/manager.py).                                           *)
(*                                                                         *)
(* All coroutines run on one asyncio event loop: a coroutine runs without  *)
(* interruption until it reaches a suspension point.  The suspension       *)
(* points of the code are the await of a coroutine-function handler in     *)
(* _emit_event and the asyncio.sleep calls.  Every action below therefore  *)
(* runs one coroutine from its current position to its next suspension     *)
(* point (operator Run).                                                   *)
(***************************************************************************)
EXTENDS Integers, Sequences, FiniteSets, TLC

VARIABLES
    inst,          \* pool of plugin instances, by instance id
    plugins,       \* PluginManager.plugins: the loaded names with their
                   \* instance ids, in insertion order (the order of a dict)
    mgr_handlers,  \* PluginManager._event_handlers
    tasks,         \* the client coroutines (one record per task)
    nemit,         \* history: number of events built by _emit_event so far
    seen,          \* history: per handler and device, the number of the
                   \* last state_changed event of the device it received
    nops           \* number of calls issued so far

vars == <<inst, plugins, mgr_handlers, tasks, nemit, seen, nops>>

---------------------------------------------------------------------------
(* Bounds of the model *)

MaxOps == 4        \* calls issued by the clients in one behaviour
MaxHandlers == 2   \* length of an instance's handler list
MaxInst == 2       \* instances constructed in one behaviour
MaxPairOps == 3    \* calls issued on a pair of instances used side by side

Tasks == {"t1", "t2"}
InstIds == 1..MaxInst

---------------------------------------------------------------------------
(* Value types: base.py *)

\* PluginStatus (base.py:25-31)
PluginStatus == {"loaded", "running", "stopped", "error", "disabled"}

\* The classes registered by _register_builtin_plugins (manager.py:31-36)
BuiltinClasses == {"philips_hue", "xiaomi_sensors"}

\* A BasePlugin subclass found in a plugin directory, registered under its
\* info.name by _load_plugin_from_file (manager.py:71-100).  Its initialize
\* is the abstract method of base.py:97-100: what it returns is an input.
ExternalClass == "custom"
\* Two such classes, so that the manager can hold two instances
ExternalClasses == {ExternalClass, "custom_b"}
PluginClasses == BuiltinClasses \cup ExternalClasses

\* A property map: a function from a finite set of keys
EmptyMap == [k \in {} |-> 0]

\* dict.get(key, default)
Get(m, k, default) == IF k \in DOMAIN m THEN m[k] ELSE default

\* DeviceState(device_id, properties, last_updated, online=True) (base.py:72-77,
\* built at base.py:153-158); last_updated is a wall-clock string, not modelled
DeviceState(d, p) == [device_id |-> d, properties |-> p, online |-> TRUE]

\* The handlers a client can register: a coroutine function, which _emit_event
\* awaits (base.py:213-214), and a plain function that raises (base.py:216-217)
Handlers == {"h_coro", "h_raise"}
IsCoroutineFunction(h) == h = "h_coro"
Raises(h) == h = "h_raise"

---------------------------------------------------------------------------
(* The example integrations *)

\* The ids passed to the registry: the ids discover_devices registers and one
\* id that is never registered.
HueIds == {"hue_light_001", "hue_light_002"}
XiaomiIds == {"xiaomi_temp_001", "xiaomi_door_001", "xiaomi_motion_001"}
CustomIds == {"custom_001"}
UnknownId == "unknown_id"
AllIds == HueIds \cup XiaomiIds \cup CustomIds \cup {UnknownId}
IdsOf(cls) == IF cls = "xiaomi_sensors" THEN XiaomiIds ELSE HueIds

\* DeviceInfo, reduced to the fields the code reads: name and capabilities
\* (philips_hue.py:85-113, xiaomi_sensors.py:86-124)
Descriptor(d) ==
    CASE d = "hue_light_001" ->
           [name |-> "Lumiere Salon Hue", caps |-> {"on_off", "brightness", "color"}]
      [] d = "hue_light_002" ->
           [name |-> "Lumiere Chambre Hue", caps |-> {"on_off", "brightness"}]
      [] d = "xiaomi_temp_001" ->
           [name |-> "Capteur Temperature Salon", caps |-> {"temperature", "humidity"}]
      [] d = "xiaomi_door_001" ->
           [name |-> "Capteur Porte Entree", caps |-> {"door_window"}]
      [] d = "xiaomi_motion_001" ->
           [name |-> "Capteur Mouvement Couloir", caps |-> {"motion"}]
      [] d = "custom_001" -> [name |-> "Custom Device", caps |-> {"on_off"}]
      [] OTHER -> [name |-> "?", caps |-> {}]

\* A descriptor a client passes to add_device for an id that is already known
\* under another name
Renamed(d) == [Descriptor(d) EXCEPT !.name = "renamed"]

\* The state discover_devices seeds for a new device (philips_hue.py:119-123,
\* xiaomi_sensors.py:130-146); the temperature is in tenths of a degree
InitialProps(cls, d) ==
    IF cls = "philips_hue"
    THEN [power |-> FALSE, brightness |-> 0, color |-> "#FFFFFF"]
    ELSE IF "temperature" \in Descriptor(d).caps
         THEN [temperature |-> 225, humidity |-> 45, battery |-> 85]
         ELSE IF "door_window" \in Descriptor(d).caps
              THEN [contact |-> TRUE, battery |-> 90]
              ELSE [motion |-> FALSE, last_motion |-> "None", battery |-> 80]

Max(a, b) == IF a >= b THEN a ELSE b
Min(a, b) == IF a <= b THEN a ELSE b

\* PhilipsHuePlugin._execute_device_action (philips_hue.py:130-167): the map
\* handed to update_device_state by each recognized action
HueActions == {"turn_on", "turn_off", "set_brightness", "set_color"}

\* Mutant: turn_on limits the brightness as set_brightness does
HueActionProps_clamp(action, parameters) ==
    CASE action = "turn_on" ->
           [power |-> TRUE,
            brightness |-> Max(0, Min(100, Get(parameters, "brightness", 100))),
            color |-> Get(parameters, "color", "#FFFFFF")]
      [] action = "turn_off" -> [power |-> FALSE, brightness |-> 0]
      [] action = "set_brightness" ->
           [brightness |-> Max(0, Min(100, Get(parameters, "brightness", 50)))]
      [] action = "set_color" ->
           [color |-> Get(parameters, "color", "#FFFFFF"), power |-> TRUE]

HueActionProps(action, parameters) ==
    CASE action = "turn_on" ->
           [power |-> TRUE,
            brightness |-> Get(parameters, "brightness", 100),
            color |-> Get(parameters, "color", "#FFFFFF")]
      [] action = "turn_off" -> [power |-> FALSE, brightness |-> 0]
      [] action = "set_brightness" ->
           [brightness |-> Max(0, Min(100, Get(parameters, "brightness", 50)))]
      [] action = "set_color" ->
           [color |-> Get(parameters, "color", "#FFFFFF"), power |-> TRUE]

\* XiaomiSensorsPlugin._execute_device_action (xiaomi_sensors.py:153-174)
XiaomiActions == {"calibrate", "reset_battery"}

RecognizedActions(cls) == IF cls = "philips_hue" THEN HueActions ELSE XiaomiActions

---------------------------------------------------------------------------
(* Coroutines.  A task record holds the position of one client coroutine:   *)
(*   pc    "idle" (no call in progress), "run" (running), "handler"         *)
(*         (suspended in the await of a coroutine handler, base.py:214),    *)
(*         "sleep" (suspended in asyncio.sleep), "done" (the call has       *)
(*         ended and its caller holds the outcome)                          *)
(*   inst  the instance the call is made on                                 *)
(*   op    the call and its history, see NoOp                               *)
(*   todo  the statements of the call that remain to be executed            *)
(*   em    the event being emitted and the position of the loop of          *)
(*         _emit_event, see NoEmission                                      *)
(*   res   the outcome of the call: "pending", "true", "false", "list",     *)
(*         "map", "null", "raised" (an exception reached the caller)        *)
(*   out   the map built by start_all_plugins, stop_all_plugins and         *)
(*         discover_all_devices (manager.py:204, 211, 238)                  *)
(***************************************************************************)

\* name, dev, action, props: the call and its arguments.  History: reg, was
\* dev registered when the call was made; nem, the number of events the call
\* has emitted; nae, the number of action_executed events among them; mut,
\* whether the handler list changed while an emission of the call ran.
\* For load_plugin: plugin, the name passed, and reg, was it loaded.
\* For the loops of the manager: props, what the method of each instance
\* does, and reg, was a loaded instance STOPPED or ERROR.
NoOp == [name |-> "none", plugin |-> "", dev |-> "none", action |-> "none",
         props |-> EmptyMap, reg |-> FALSE, nem |-> 0, nae |-> 0, mut |-> FALSE]

\* The event built by _emit_event (base.py:204-209): plugin (self.info.name),
\* type and, of the data, the device id, the property map and the result.
\* idx is the position of the list iterator of "for handler in
\* self._event_handlers" (base.py:211).  History: ev, the number of the event;
\* snap, the handler list when the emission started; log, the handlers
\* invoked so far; mut, whether the list was changed while the loop ran.
NoEmission == [on |-> FALSE, plugin |-> "", type |-> "", dev |-> "none",
               props |-> EmptyMap, result |-> "", idx |-> 0, ev |-> 0,
               snap |-> <<>>, log |-> <<>>, mut |-> FALSE]

IdleTask == [pc |-> "idle", inst |-> 0, op |-> NoOp, todo |-> <<>>,
             em |-> NoEmission, res |-> "none", out |-> EmptyMap]

\* The statements a call is made of
Instr(k, d, desc, p, type, r) ==
    [k |-> k, dev |-> d, desc |-> desc, props |-> p, type |-> type, res |-> r]
NoDesc == [name |-> "?", caps |-> {}]
IAdd(d, desc) == Instr("add", d, desc, EmptyMap, "", "")
IUpd(d, p) == Instr("upd", d, NoDesc, p, "", "")
IRem(d) == Instr("rem", d, NoDesc, EmptyMap, "", "")
IEmit(type, d, r) == Instr("emit", d, NoDesc, EmptyMap, type, r)
ISleep == Instr("sleep", "none", NoDesc, EmptyMap, "", "")
ISpawn == Instr("spawn", "none", NoDesc, EmptyMap, "", "")
IStore(n) == Instr("store", "none", NoDesc, EmptyMap, n, "")
IDrop == Instr("drop", "none", NoDesc, EmptyMap, "", "")
IRet(r) == Instr("ret", "none", NoDesc, EmptyMap, "", r)
\* del self.plugins[n] (manager.py:158)
IDel(n) == Instr("del", "none", NoDesc, EmptyMap, n, "")
\* The loops of the manager over self.plugins: kind is the loop, pos the
\* number of entries the dict iterator has yielded, size the length of the
\* dict when the loop started
IIter(kind, pos, size) == [k |-> "iter", type |-> kind, pos |-> pos, size |-> size]
\* results[plugin_name] = value (manager.py:206, 213, 243, 246)
IOut(n, v) == Instr("out", "none", NoDesc, EmptyMap, n, v)
\* self.status = value
IStatus(v) == Instr("status", "none", NoDesc, EmptyMap, "", v)
\* The dict built by get_system_status (manager.py:269-280)
IReport == Instr("report", "none", NoDesc, EmptyMap, "", "")

\* dict assignment and del
Put(f, k, v) == [x \in DOMAIN f \cup {k} |-> IF x = k THEN v ELSE f[x]]
Del(f, k) == [x \in DOMAIN f \ {k} |-> f[x]]

\* self.plugins, a dict whose order is read by the loops of the manager: a
\* sequence of entries [name, id].  Assignment to a new key appends, to a
\* present key replaces in place; del removes the entry.
PluginNames(pls) == {pls[k].name : k \in 1..Len(pls)}
PluginId(pls, n) == pls[CHOOSE k \in 1..Len(pls) : pls[k].name = n].id
PutPlugin(pls, n, i) ==
    IF n \in PluginNames(pls)
    THEN [k \in 1..Len(pls) |-> IF pls[k].name = n THEN [name |-> n, id |-> i]
                                ELSE pls[k]]
    ELSE Append(pls, [name |-> n, id |-> i])
DelPlugin(pls, n) ==
    LET Keep(e) == e.name # n IN SelectSeq(pls, Keep)

\* An instance that was not constructed yet
NoInstance == [cls |-> "none", config |-> [ip |-> "", token |-> ""],
               status |-> "none", devices |-> EmptyMap,
               device_states |-> EmptyMap, handlers |-> <<>>, monitors |-> 0]

\* BasePlugin.__init__ (base.py:83-89) and the subclass constructors
\* (philips_hue.py:14-18, xiaomi_sensors.py:15-19); monitors counts the
\* monitor tasks created by start that have not ended
NewInstance(cls, config) ==
    [cls |-> cls, config |-> config, status |-> "loaded", devices |-> EmptyMap,
     device_states |-> EmptyMap, handlers |-> <<>>, monitors |-> 0]

\* get_device_state (base.py:141-143): the state, or Absent for None
Absent == [device_id |-> "", properties |-> EmptyMap, online |-> FALSE]
GetDeviceState(pl, d) ==
    IF d \in DOMAIN pl.device_states THEN pl.device_states[d] ELSE Absent

\* Mutant: the event is emitted for a device that was not stored
AddDevice_unstored(pl, d, desc) == pl

\* The registry writes of add_device (base.py:120), remove_device
\* (base.py:131-133) and update_device_state (base.py:153-160), on an
\* instance record pl
AddDevice(pl, d, desc) == [pl EXCEPT !.devices = Put(@, d, desc)]

\* Mutant: the state of the removed device is kept
RemoveDevice_keepstate(pl, d) == [pl EXCEPT !.devices = Del(@, d)]

RemoveDevice(pl, d) ==
    [pl EXCEPT !.devices = Del(@, d), !.device_states = Del(@, d)]

\* Mutant: the new map is merged into the stored one
UpdateDeviceState_merge(pl, d, p) ==
    LET old == GetDeviceState(pl, d).properties
        new == [k \in DOMAIN old \cup DOMAIN p |->
                   IF k \in DOMAIN p THEN p[k] ELSE old[k]]
    IN  [pl EXCEPT !.device_states = Put(@, d, DeviceState(d, new))]

UpdateDeviceState(pl, d, p) ==
    [pl EXCEPT !.device_states = Put(@, d, DeviceState(d, p))]

\* Mutant: devices_count counts the states
HealthCheck_states(pl) ==
    [status |-> pl.status,
     devices_count |-> Cardinality(DOMAIN pl.device_states),
     online_devices |->
         Cardinality({d \in DOMAIN pl.device_states : pl.device_states[d].online})]

\* BasePlugin.health_check (base.py:221-228), which an external class
\* inherits; last_check is a constant string, not modelled
HealthCheck(pl) ==
    [status |-> pl.status,
     devices_count |-> Cardinality(DOMAIN pl.devices),
     online_devices |->
         Cardinality({d \in DOMAIN pl.device_states : pl.device_states[d].online})]

\* sum(len(p.devices) for p in self.plugins.values()) (manager.py:275), over
\* the entries from position k on
RECURSIVE SumDevices(_, _, _)
SumDevices(pls, ins, k) ==
    IF k > Len(pls) THEN 0
    ELSE Cardinality(DOMAIN ins[pls[k].id].devices) + SumDevices(pls, ins, k + 1)

\* The dict get_system_status returns (manager.py:269-282): the counts are
\* taken first, then one health_check per entry; nothing suspends in between
SystemStatus(pls, ins) ==
    [total_plugins |-> Len(pls),
     running_plugins |->
         Cardinality({k \in 1..Len(pls) : ins[pls[k].id].status = "running"}),
     total_devices |-> SumDevices(pls, ins, 1),
     plugins |-> [n \in PluginNames(pls) |-> HealthCheck(ins[PluginId(pls, n)])]]

\* s is the part of the state a coroutine step reads and writes:
\* [inst, plugins, tasks, nemit, seen]

\* _emit_event entered (base.py:202-209): the event is built and the loop over
\* self._event_handlers starts at its first element
StartEmit(s, t, type, d, p, r) ==
    LET pl == s.inst[s.tasks[t].inst] IN
    [s EXCEPT !.nemit = @ + 1,
              !.tasks[t].op.nem = @ + 1,
              !.tasks[t].op.nae = IF type = "action_executed" THEN @ + 1 ELSE @,
              !.tasks[t].em =
                  [on |-> TRUE, plugin |-> pl.cls, type |-> type, dev |-> d,
                   props |-> p, result |-> r, idx |-> 0, ev |-> s.nemit + 1,
                   snap |-> pl.handlers, log |-> <<>>, mut |-> FALSE]]

\* Mutant: the list is walked from its end
NextHandler_reverse(hs, idx) == hs[Len(hs) - idx]

\* The element the list iterator yields at position idx (base.py:211)
NextHandler(hs, idx) == hs[idx + 1]

\* Mutant: the exception of a handler ends the emission and the call
AfterHandler_abort(tk, h) ==
    IF Raises(h)
    THEN [tk EXCEPT !.em.on = FALSE, !.todo = <<IRet("raised")>>]
    ELSE tk

\* The task after handler h ended, by returning or by raising (base.py:212-219:
\* the exception is swallowed and the loop goes on)
AfterHandler(tk, h) == tk

\* The handler receives the event (history)
Deliver(sn, h, em) ==
    IF em.type = "state_changed" THEN [sn EXCEPT ![h][em.dev] = em.ev] ELSE sn

\* One turn of the loop of _emit_event (base.py:211-219).  The iterator reads
\* the live list: it stops when its position has reached the current length.
EmitStep(s, t) ==
    LET tk == s.tasks[t]
        hs == s.inst[tk.inst].handlers
    IN  IF tk.em.idx < Len(hs)
        THEN LET h == NextHandler(hs, tk.em.idx)
                 tk1 == [tk EXCEPT !.em.idx = @ + 1, !.em.log = Append(@, h)]
                 s1 == [s EXCEPT !.seen = Deliver(@, h, tk.em)]
             IN  IF IsCoroutineFunction(h)
                 THEN [s1 EXCEPT !.tasks[t] = [tk1 EXCEPT !.pc = "handler"]]
                 ELSE [s1 EXCEPT !.tasks[t] = AfterHandler(tk1, h)]
        ELSE [s EXCEPT !.tasks[t].em.on = FALSE]

\* discover_devices (philips_hue.py:81-128, xiaomi_sensors.py:82-151): each
\* device of the fixed list is added and seeded, in list order
DiscoveredList(cls) ==
    IF cls = "philips_hue" THEN <<"hue_light_001", "hue_light_002">>
    ELSE <<"xiaomi_temp_001", "xiaomi_door_001", "xiaomi_motion_001">>

RECURSIVE DiscoverStatements(_, _)
DiscoverStatements(cls, ds) ==
    IF ds = <<>> THEN <<>>
    ELSE <<IAdd(Head(ds), Descriptor(Head(ds))),
           IUpd(Head(ds), InitialProps(cls, Head(ds)))>>
         \o DiscoverStatements(cls, Tail(ds))

\* discover_devices of an instance of an external class, as the contract
\* describes it: the devices are registered and seeded and the list is
\* returned (outcome "list"), or the call raises (outcome "raised")
ExternalDiscover(outcome) ==
    IF outcome = "list"
    THEN <<IAdd("custom_001", Descriptor("custom_001")),
           IUpd("custom_001", [power |-> FALSE])>>
    ELSE <<>>

\* discover_devices of the instance pl: the statements and the outcome
PluginDiscover(pl, outcome) ==
    IF pl.cls \in BuiltinClasses
    THEN [todo |-> DiscoverStatements(pl.cls, DiscoveredList(pl.cls)),
          result |-> "list"]
    ELSE [todo |-> ExternalDiscover(outcome), result |-> outcome]

\* Mutant: the exception of discover_devices is not caught
DiscoverEntry_nocatch(name, pl, outcome) ==
    LET r == PluginDiscover(pl, outcome)
    IN  IF r.result = "raised" THEN <<IRet("raised")>>
        ELSE r.todo \o <<IOut(name, "list")>>

\* The body of the loop of discover_all_devices (manager.py:241-246): the
\* list of the instance, or [] when its discover_devices raised
DiscoverEntry(name, pl, outcome) ==
    LET r == PluginDiscover(pl, outcome)
    IN  r.todo \o <<IOut(name, IF r.result = "raised" THEN "empty" ELSE "list")>>

\* start and stop of an instance of an external class, as the contract
\* describes them: start returns true and the status is RUNNING, or returns
\* false and the status is ERROR, or raises; stop returns true and the status
\* is STOPPED, or returns false, or raises.  Neither suspends.
ExternalStart(outcome) ==
    CASE outcome = "true" -> <<IStatus("running")>>
      [] outcome = "false" -> <<IStatus("error")>>
      [] OTHER -> <<>>
ExternalStop(outcome) ==
    IF outcome = "true" THEN <<IStatus("stopped")>> ELSE <<>>

\* start and stop of the instance pl: the statements and the outcome.  For
\* the built-in classes see StartCall and StopCall.
PluginStart(pl, outcome) ==
    IF pl.cls \in BuiltinClasses THEN [todo |-> <<ISpawn>>, result |-> "raised"]
    ELSE [todo |-> ExternalStart(outcome), result |-> outcome]
PluginStop(pl, outcome) ==
    IF pl.cls \in BuiltinClasses THEN [todo |-> <<>>, result |-> "false"]
    ELSE [todo |-> ExternalStop(outcome), result |-> outcome]

\* Mutant: the exception of start is not caught
StartPluginEntry_nocatch(name, pl, outcome) ==
    LET r == PluginStart(pl, outcome)
    IN  IF r.result = "raised" THEN <<IRet("raised")>>
        ELSE r.todo \o <<IOut(name, r.result)>>

\* Mutant: an instance that is STOPPED or ERROR is not started again
StartPluginEntry_guarded(name, pl, outcome) ==
    LET r == PluginStart(pl, outcome)
    IN  IF pl.status \in {"stopped", "error"} THEN <<IOut(name, "false")>>
        ELSE r.todo \o <<IOut(name, IF r.result = "true" THEN "true" ELSE "false")>>

\* start_plugin, called by the loop of start_all_plugins for a loaded name
\* (manager.py:171-182, 205-206): True when start returned True, False when it
\* returned False or raised
StartPluginEntry(name, pl, outcome) ==
    LET r == PluginStart(pl, outcome)
    IN  r.todo \o <<IOut(name, IF r.result = "true" THEN "true" ELSE "false")>>

\* stop_plugin, called by the loop of stop_all_plugins (manager.py:189-200,
\* 212-213)
StopPluginEntry(name, pl, outcome) ==
    LET r == PluginStop(pl, outcome)
    IN  r.todo \o <<IOut(name, IF r.result = "true" THEN "true" ELSE "false")>>

\* The body of a loop of the manager over self.plugins
LoopBody(kind, name, pl, outcome) ==
    CASE kind = "discover" -> DiscoverEntry(name, pl, outcome)
      [] kind = "start" -> StartPluginEntry(name, pl, outcome)
      [] kind = "stop" -> StopPluginEntry(name, pl, outcome)

\* One statement of a call.  add_device, remove_device and
\* update_device_state write the registry and enter _emit_event without a
\* suspension point in between (base.py:120-121, 131-134, 160-161).
ExecInstr(s, t, ins) ==
    LET i == s.tasks[t].inst
        pl == s.inst[i]
        s0 == [s EXCEPT !.tasks[t].todo = Tail(@)]
    IN  CASE ins.k = "add" ->
               StartEmit([s0 EXCEPT !.inst[i] = AddDevice(pl, ins.dev, ins.desc)],
                         t, "device_added", ins.dev, EmptyMap, "")
          [] ins.k = "rem" ->
               StartEmit([s0 EXCEPT !.inst[i] = RemoveDevice(pl, ins.dev)],
                         t, "device_removed", ins.dev, EmptyMap, "")
          [] ins.k = "upd" ->
               \* base.py:148-149: not registered, nothing happens
               IF ins.dev \notin DOMAIN pl.devices
               THEN s0
               ELSE StartEmit(
                      [s0 EXCEPT !.inst[i] = UpdateDeviceState(pl, ins.dev, ins.props)],
                      t, "state_changed", ins.dev, ins.props, "")
          [] ins.k = "emit" -> StartEmit(s0, t, ins.type, ins.dev, EmptyMap, ins.res)
          [] ins.k = "sleep" -> [s0 EXCEPT !.tasks[t].pc = "sleep"]
          [] ins.k = "spawn" -> [s0 EXCEPT !.inst[i].monitors = @ + 1]
          \* manager.py:134: self.plugins[plugin_name] = plugin
          [] ins.k = "store" -> [s0 EXCEPT !.plugins = PutPlugin(@, ins.type, i)]
          \* manager.py:139, 143: the instance built by load_plugin is not
          \* stored and nothing refers to it any more
          [] ins.k = "drop" -> [s0 EXCEPT !.inst[i] = NoInstance]
          \* manager.py:158: the entry leaves the dict; the instance object
          \* is what the variable plugin of the call still refers to
          [] ins.k = "del" -> [s0 EXCEPT !.plugins = DelPlugin(@, ins.type)]
          [] ins.k = "out" -> [s0 EXCEPT !.tasks[t].out = Put(@, ins.type, ins.res)]
          [] ins.k = "status" -> [s0 EXCEPT !.inst[i].status = ins.res]
          [] ins.k = "report" ->
               [s0 EXCEPT !.tasks[t].out = SystemStatus(s.plugins, s.inst)]
          \* One turn of "for ... in self.plugins" (manager.py:205, 212, 240).
          \* The dict iterator raises RuntimeError when the size of the dict
          \* has changed since the loop started; the loops are not inside a
          \* try statement.
          [] ins.k = "iter" ->
               IF Len(s.plugins) # ins.size
               THEN [s0 EXCEPT !.tasks[t].pc = "done", !.tasks[t].res = "raised"]
               ELSE IF ins.pos >= Len(s.plugins)
               THEN [s0 EXCEPT !.tasks[t].pc = "done",
                               \* shutdown drops the map (manager.py:286)
                               !.tasks[t].res =
                                   IF s.tasks[t].op.name = "shutdown"
                                   THEN "null" ELSE "map"]
               ELSE LET e == s.plugins[ins.pos + 1] IN
                    [s0 EXCEPT !.tasks[t].inst = e.id,
                               !.tasks[t].todo =
                                   LoopBody(ins.type, e.name, s.inst[e.id],
                                            Get(s.tasks[t].op.props, e.name, "raised"))
                                   \o <<IIter(ins.type, ins.pos + 1, ins.size)>>]
          [] ins.k = "ret" ->
               [s0 EXCEPT !.tasks[t].pc = "done", !.tasks[t].res = ins.res]

\* One step of a running coroutine: the emission loop if one is running,
\* else the next statement
Step(s, t) ==
    IF s.tasks[t].em.on THEN EmitStep(s, t)
    ELSE ExecInstr(s, t, Head(s.tasks[t].todo))

\* The coroutine runs until it suspends or returns
RECURSIVE Run(_, _)
Run(s, t) == IF s.tasks[t].pc # "run" THEN s ELSE Run(Step(s, t), t)

---------------------------------------------------------------------------
(* The calls of the plugin contract, as the statements they execute on      *)
(* instance record pl.  The first statement runs in the step of the call.   *)

\* add_device (base.py:117-125): no test of the id, always True
AddDeviceCall(pl, d, desc) == <<IAdd(d, desc), IRet("true")>>

\* remove_device (base.py:127-139)
RemoveDeviceCall(pl, d) ==
    IF d \in DOMAIN pl.devices THEN <<IRem(d), IRet("true")>> ELSE <<IRet("false")>>

\* Mutant: no test of the device id
UpdateDeviceStateCall_noguard(pl, d, p) == <<IUpd(d, p), IRet("true")>>

\* update_device_state (base.py:145-166)
UpdateDeviceStateCall(pl, d, p) ==
    IF d \notin DOMAIN pl.devices THEN <<IRet("false")>>
    ELSE <<IUpd(d, p), IRet("true")>>

\* _execute_device_action of the two integrations (philips_hue.py:130-167,
\* xiaomi_sensors.py:153-174): the statements and the returned value.  The
\* value update_device_state returns is not read.
ExecuteDeviceAction(cls, d, action, parameters) ==
    IF cls = "philips_hue"
    THEN IF action \in HueActions
         THEN [todo |-> <<IUpd(d, HueActionProps(action, parameters))>>,
               result |-> "true"]
         ELSE [todo |-> <<>>, result |-> "false"]
    ELSE CASE action = "calibrate" ->
                [todo |-> <<ISleep, IEmit("device_calibrated", d, "")>>,
                 result |-> "true"]
           [] action = "reset_battery" ->
                [todo |-> <<IUpd(d, [battery |-> 100])>>, result |-> "true"]
           [] OTHER -> [todo |-> <<>>, result |-> "false"]

\* Mutant: no test of the device id
ExecuteActionCall_noguard(pl, d, action, parameters) ==
    LET r == ExecuteDeviceAction(pl.cls, d, action, parameters)
    IN  r.todo \o <<IEmit("action_executed", d, r.result), IRet(r.result)>>

\* Mutant: action_executed is emitted for the actions that succeeded only
ExecuteActionCall_onsuccess(pl, d, action, parameters) ==
    IF d \notin DOMAIN pl.devices THEN <<IRet("false")>>
    ELSE LET r == ExecuteDeviceAction(pl.cls, d, action, parameters)
         IN  IF r.result = "true"
             THEN r.todo \o <<IEmit("action_executed", d, "true"), IRet("true")>>
             ELSE r.todo \o <<IRet("false")>>

\* execute_action (base.py:168-186): action_executed is emitted with the
\* result of _execute_device_action, whatever it is
ExecuteActionCall(pl, d, action, parameters) ==
    IF d \notin DOMAIN pl.devices THEN <<IRet("false")>>
    ELSE LET r == ExecuteDeviceAction(pl.cls, d, action, parameters)
         IN  r.todo \o <<IEmit("action_executed", d, r.result), IRet(r.result)>>

DiscoverDevicesCall(pl) ==
    DiscoverStatements(pl.cls, DiscoveredList(pl.cls)) \o <<IRet("list")>>

\* The name PluginStatus is not imported by the example modules
\* (philips_hue.py:8, xiaomi_sensors.py:9): evaluating it raises NameError.
\* initialize (philips_hue.py:41-59, xiaomi_sensors.py:43-60): after the sleep,
\* missing settings return False; otherwise line 54 raises NameError, the
\* except clause raises it again at line 58 and it reaches the caller.
ConfigOk(c) == c.ip # "" /\ c.token # ""
InitializeResult(config) == IF ConfigOk(config) THEN "raised" ELSE "false"
InitializeCall(pl) == <<ISleep, IRet(InitializeResult(pl.config))>>

\* start (philips_hue.py:61-70, xiaomi_sensors.py:62-71): the monitor task is
\* created, then line 66 raises NameError, and so does line 69 in the except
\* clause: the status is not written and the error reaches the caller
StartCall(pl) == <<ISpawn, IRet("raised")>>

\* Mutant: the status is written and True is returned
StopCall_sets(pl) == <<IStatus("stopped"), IRet("true")>>

\* stop (philips_hue.py:72-79, xiaomi_sensors.py:73-80): line 75 raises
\* NameError, the except clause returns False
StopCall(pl) == <<IRet("false")>>

\* Mutant: no test of the loaded plugins
LoadPluginCall_noguard(pls, name, outcome) ==
    IF name \notin PluginClasses
    THEN [new |-> FALSE, todo |-> <<IRet("false")>>]
    ELSE [new |-> TRUE,
          todo |-> <<ISleep>> \o
                   IF outcome = "true" THEN <<IStore(name), IRet("true")>>
                   ELSE <<IDrop, IRet("false")>>]

\* load_plugin (manager.py:113-143).  pls is self.plugins; outcome is what
\* plugin.initialize() does: "true", "false" or "raised" (manager.py:133,
\* 141-143).  new says whether an instance is constructed (manager.py:126);
\* initialize suspends in its sleep before it ends.
LoadPluginCall(pls, name, outcome) ==
    IF name \in PluginNames(pls)
    THEN [new |-> FALSE, todo |-> <<IRet("true")>>]
    ELSE IF name \notin PluginClasses
    THEN [new |-> FALSE, todo |-> <<IRet("false")>>]
    ELSE [new |-> TRUE,
          todo |-> <<ISleep>> \o
                   IF outcome = "true" THEN <<IStore(name), IRet("true")>>
                   ELSE <<IDrop, IRet("false")>>]

\* unload_plugin (manager.py:145-164).  pls is self.plugins, pl the instance
\* stored under name; outcome is what plugin.stop() does.  The value stop
\* returns is not used (manager.py:155); an exception of stop ends the call
\* with False before the del (manager.py:162-164).
UnloadPluginCall(pls, name, pl, outcome) ==
    IF name \notin PluginNames(pls) THEN <<IRet("false")>>
    ELSE IF pl.status = "running"
    THEN LET r == PluginStop(pl, outcome)
         IN  IF r.result = "raised" THEN <<IRet("false")>>
             ELSE r.todo \o <<IDel(name), IRet("true")>>
    ELSE <<IDel(name), IRet("true")>>

\* What initialize does for a class and a configuration
InitializeOutcomes(name, config) ==
    IF name \in ExternalClasses THEN {"true", "false", "raised"}
    ELSE {InitializeResult(config)}

\* manager.py:125-130: the instance is constructed and receives the
\* handlers of the manager
Construct(cls, config, hs) == [NewInstance(cls, config) EXCEPT !.handlers = hs]

---------------------------------------------------------------------------
(* Inputs *)

\* The settings read by the constructors (philips_hue.py:16-17,
\* xiaomi_sensors.py:17-18): the address has a default, the username or
\* token defaults to ""
DefaultConfig == [ip |-> "192.168.1.100", token |-> ""]
FullConfig == [ip |-> "192.168.1.100", token |-> "u"]
Configs == {DefaultConfig, FullConfig}
\* The ids the clients pass: the first id discover_devices registers and the
\* id that is never registered
InputIds(cls) ==
    IF cls \in ExternalClasses THEN CustomIds \cup {UnknownId}
    ELSE {DiscoveredList(cls)[1], UnknownId}
\* The actions the clients ask for, with their parameters
InputActions(cls) ==
    LET d == DiscoveredList(cls)[1]
        A(dev, a, p) == [dev |-> dev, action |-> a, params |-> p]
    IN  {A(UnknownId, "turn_on", EmptyMap), A(d, "bogus", EmptyMap)} \cup
        IF cls = "philips_hue"
        THEN {A(d, "turn_on", EmptyMap), A(d, "turn_on", [brightness |-> 150]),
              A(d, "turn_off", EmptyMap), A(d, "set_brightness", [brightness |-> 150]),
              A(d, "set_color", [color |-> "#FF0000"])}
        ELSE {A(d, "calibrate", EmptyMap), A(d, "reset_battery", EmptyMap)}
InputProps == {[power |-> TRUE], [brightness |-> 50, color |-> "#FF0000"]}
\* The names and configurations passed to load_plugin; "missing" is the name
\* of no class
LoadInputs ==
    {[name |-> "philips_hue", config |-> DefaultConfig],
     [name |-> "philips_hue", config |-> FullConfig],
     [name |-> "xiaomi_sensors", config |-> FullConfig],
     [name |-> ExternalClass, config |-> DefaultConfig],
     [name |-> "custom_b", config |-> DefaultConfig],
     [name |-> "missing", config |-> DefaultConfig]}

---------------------------------------------------------------------------
(* Actions *)

State == [inst |-> inst, plugins |-> plugins, tasks |-> tasks,
          nemit |-> nemit, seen |-> seen]

Commit(s) ==
    /\ inst' = s.inst
    /\ plugins' = s.plugins
    /\ tasks' = s.tasks
    /\ nemit' = s.nemit
    /\ seen' = s.seen

\* A call that has ended hands its outcome to its caller before anything
\* else happens
Settled == \A t \in Tasks : tasks[t].pc # "done"

\* The tasks are interchangeable: the idle task that makes the next call is
\* the first one
Caller(t) ==
    /\ Settled
    /\ tasks[t].pc = "idle"
    /\ t = "t2" => tasks["t1"].pc # "idle"

\* Task t calls an operation of instance i and runs to its first suspension
Call(t, i, name, d, action, p, todo) ==
    /\ Caller(t)
    /\ nops < MaxOps
    /\ inst[i].cls # "none"
    /\ nops' = nops + 1
    /\ Commit(Run([State EXCEPT !.tasks[t] =
                     [pc |-> "run", inst |-> i,
                      op |-> [NoOp EXCEPT !.name = name, !.dev = d,
                                !.action = action, !.props = p,
                                !.reg = d \in DOMAIN inst[i].devices],
                      todo |-> todo, em |-> NoEmission, res |-> "pending",
                      out |-> EmptyMap]], t))
    /\ UNCHANGED mgr_handlers

CallAddDevice(t, i) ==
    \E d \in InputIds(inst[i].cls) \ {UnknownId} :
      \E desc \in {Descriptor(d), Renamed(d)} :
        Call(t, i, "add_device", d, desc.name, EmptyMap,
             AddDeviceCall(inst[i], d, desc))

CallRemoveDevice(t, i) ==
    \E d \in InputIds(inst[i].cls) :
        Call(t, i, "remove_device", d, "", EmptyMap, RemoveDeviceCall(inst[i], d))

CallUpdateDeviceState(t, i) ==
    \E d \in InputIds(inst[i].cls) : \E p \in InputProps :
        Call(t, i, "update_device_state", d, "", p,
             UpdateDeviceStateCall(inst[i], d, p))

CallExecuteAction(t, i) ==
    \E a \in InputActions(inst[i].cls) :
        Call(t, i, "execute_action", a.dev, a.action, a.params,
             ExecuteActionCall(inst[i], a.dev, a.action, a.params))

CallDiscoverDevices(t, i) ==
    Call(t, i, "discover_devices", "none", "", EmptyMap, DiscoverDevicesCall(inst[i]))

CallInitialize(t, i) ==
    Call(t, i, "initialize", "none", "", EmptyMap, InitializeCall(inst[i]))

CallStart(t, i) == Call(t, i, "start", "none", "", EmptyMap, StartCall(inst[i]))

CallStop(t, i) == Call(t, i, "stop", "none", "", EmptyMap, StopCall(inst[i]))

\* The coroutine handler awaited by task t ends (base.py:214) and the loop
\* of _emit_event goes on
HandlerEnds(t) ==
    /\ Settled
    /\ tasks[t].pc = "handler"
    /\ LET tk == [tasks[t] EXCEPT !.pc = "run"]
       IN  Commit(Run([State EXCEPT !.tasks[t] =
                         AfterHandler(tk, tk.em.log[Len(tk.em.log)])], t))
    /\ UNCHANGED <<mgr_handlers, nops>>

\* The caller of task t's call takes its outcome; the task is free for the
\* next call
Return(t) ==
    /\ tasks[t].pc = "done"
    /\ tasks' = [tasks EXCEPT ![t] = IdleTask]
    /\ UNCHANGED <<inst, plugins, mgr_handlers, nemit, seen, nops>>

\* asyncio.sleep ends
Wake(t) ==
    /\ Settled
    /\ tasks[t].pc = "sleep"
    /\ Commit(Run([State EXCEPT !.tasks[t].pc = "run"], t))
    /\ UNCHANGED <<mgr_handlers, nops>>

\* Mutant: the monitor goes on
MonitorLoop_forever(pl) == pl

\* The loop of the monitor task of instance record pl, from its first test
\* (philips_hue.py:171, xiaomi_sensors.py:178): evaluating PluginStatus
\* raises NameError, outside the try statement of the loop body, and the
\* task ends
MonitorLoop(pl) == [pl EXCEPT !.monitors = @ - 1]

\* The monitor task created by start runs: its loop test
\* (philips_hue.py:171, xiaomi_sensors.py:178) raises NameError and the task
\* ends
MonitorStep(i) ==
    /\ Settled
    /\ inst[i].monitors > 0
    /\ inst' = [inst EXCEPT ![i] = MonitorLoop(@)]
    /\ UNCHANGED <<plugins, mgr_handlers, tasks, nemit, seen, nops>>

\* The running emissions of instance i are marked when its handler list
\* changes (history)
MarkMutated(tks, I) ==
    [t \in Tasks |->
        IF tks[t].em.on /\ tks[t].inst \in I
        THEN [tks[t] EXCEPT !.em.mut = TRUE, !.op.mut = TRUE] ELSE tks[t]]

\* list.remove: the first occurrence
RECURSIVE RemoveFirst(_, _)
RemoveFirst(hs, h) ==
    IF hs = <<>> THEN <<>>
    ELSE IF Head(hs) = h THEN Tail(hs)
         ELSE <<Head(hs)>> \o RemoveFirst(Tail(hs), h)

Occurrences(hs, h) == Cardinality({k \in 1..Len(hs) : hs[k] = h})

InList(hs, h) == \E k \in 1..Len(hs) : hs[k] = h

\* Mutant: the handler list is an attribute of the class, shared by the
\* instances
AddEventHandler_shared(i, h) ==
    /\ Settled
    /\ inst[i].cls # "none"
    /\ nops < MaxOps
    /\ \A j \in InstIds : Len(inst[j].handlers) < MaxHandlers
    /\ nops' = nops + 1
    /\ inst' = [j \in InstIds |->
                  IF inst[j].cls = "none" THEN inst[j]
                  ELSE [inst[j] EXCEPT !.handlers = Append(@, h)]]
    /\ tasks' = MarkMutated(tasks, InstIds)
    /\ UNCHANGED <<plugins, mgr_handlers, nemit, seen>>

\* BasePlugin.add_event_handler (base.py:193-195)
AddEventHandler(i, h) ==
    /\ Settled
    /\ inst[i].cls # "none"
    /\ nops < MaxOps
    /\ Len(inst[i].handlers) < MaxHandlers
    /\ nops' = nops + 1
    /\ inst' = [inst EXCEPT ![i].handlers = Append(@, h)]
    /\ tasks' = MarkMutated(tasks, {i})
    /\ UNCHANGED <<plugins, mgr_handlers, nemit, seen>>

\* BasePlugin.remove_event_handler (base.py:197-200)
RemoveEventHandler(i, h) ==
    /\ Settled
    /\ inst[i].cls # "none"
    /\ nops < MaxOps
    /\ InList(inst[i].handlers, h)
    /\ nops' = nops + 1
    /\ inst' = [inst EXCEPT ![i].handlers = RemoveFirst(@, h)]
    /\ tasks' = MarkMutated(tasks, {i})
    /\ UNCHANGED <<plugins, mgr_handlers, nemit, seen>>

---------------------------------------------------------------------------
(* Specification of one instance used directly by its clients *)

Init ==
    /\ \E cls \in BuiltinClasses :
         inst = [i \in InstIds |->
                    IF i = 1 THEN NewInstance(cls, FullConfig) ELSE NoInstance]
    /\ plugins = <<>>
    /\ mgr_handlers = <<>>
    /\ tasks = [t \in Tasks |-> IdleTask]
    /\ nemit = 0
    /\ seen = [h \in Handlers |-> [d \in AllIds |-> 0]]
    /\ nops = 0

Next ==
    \/ \E t \in Tasks : CallAddDevice(t, 1)
    \/ \E t \in Tasks : CallRemoveDevice(t, 1)
    \/ \E t \in Tasks : CallUpdateDeviceState(t, 1)
    \/ \E t \in Tasks : CallExecuteAction(t, 1)
    \/ \E t \in Tasks : CallDiscoverDevices(t, 1)
    \/ \E t \in Tasks : CallInitialize(t, 1)
    \/ \E t \in Tasks : CallStart(t, 1)
    \/ \E t \in Tasks : CallStop(t, 1)
    \/ \E t \in Tasks : HandlerEnds(t)
    \/ \E t \in Tasks : Wake(t)
    \/ \E t \in Tasks : Return(t)
    \/ MonitorStep(1)
    \/ \E h \in Handlers : AddEventHandler(1, h)
    \/ \E h \in Handlers : RemoveEventHandler(1, h)

Spec == Init /\ [][Next]_vars

---------------------------------------------------------------------------
(* Specification of the lifecycle of one instance of a built-in class *)

InitLife ==
    /\ \E cls \in BuiltinClasses : \E config \in Configs :
         inst = [i \in InstIds |->
                    IF i = 1 THEN NewInstance(cls, config) ELSE NoInstance]
    /\ plugins = <<>>
    /\ mgr_handlers = <<>>
    /\ tasks = [t \in Tasks |-> IdleTask]
    /\ nemit = 0
    /\ seen = [h \in Handlers |-> [d \in AllIds |-> 0]]
    /\ nops = 0

NextLife ==
    \/ \E t \in Tasks : CallInitialize(t, 1)
    \/ \E t \in Tasks : CallStart(t, 1)
    \/ \E t \in Tasks : CallStop(t, 1)
    \/ \E t \in Tasks : Wake(t)
    \/ \E t \in Tasks : Return(t)
    \/ MonitorStep(1)

SpecLife == InitLife /\ [][NextLife]_vars

\* The event loop runs every task that is ready: the monitor tasks, the
\* sleeping calls and the callers that wait for an outcome
SpecLifeFair ==
    /\ SpecLife
    /\ WF_vars(MonitorStep(1))
    /\ \A t \in Tasks : WF_vars(Wake(t)) /\ WF_vars(Return(t))

---------------------------------------------------------------------------
(* Specification of two instances used side by side by their clients *)

\* Two instances constructed by their clients (base.py:83-89), of one class
\* or of the two classes
InitPair ==
    /\ \E c1, c2 \in BuiltinClasses :
         inst = [i \in InstIds |->
                    IF i = 1 THEN NewInstance(c1, FullConfig)
                    ELSE IF i = 2 THEN NewInstance(c2, FullConfig)
                    ELSE NoInstance]
    /\ plugins = <<>>
    /\ mgr_handlers = <<>>
    /\ tasks = [t \in Tasks |-> IdleTask]
    /\ nemit = 0
    /\ seen = [h \in Handlers |-> [d \in AllIds |-> 0]]
    /\ nops = 0

Pair == {1, 2}

\* The clients of the pair issue at most MaxPairOps calls
PairBound == nops < MaxPairOps

NextPair ==
    \/ PairBound /\ \E t \in Tasks : \E i \in Pair : CallAddDevice(t, i)
    \/ PairBound /\ \E t \in Tasks : \E i \in Pair : CallRemoveDevice(t, i)
    \/ PairBound /\ \E t \in Tasks : \E i \in Pair : CallUpdateDeviceState(t, i)
    \/ PairBound /\ \E t \in Tasks : \E i \in Pair : CallExecuteAction(t, i)
    \/ PairBound /\ \E t \in Tasks : \E i \in Pair : CallDiscoverDevices(t, i)
    \/ PairBound /\ \E t \in Tasks : \E i \in Pair : CallStart(t, i)
    \/ PairBound /\ \E t \in Tasks : \E i \in Pair : CallStop(t, i)
    \/ PairBound /\ \E i \in Pair : \E h \in Handlers : AddEventHandler(i, h)
    \/ \E t \in Tasks : HandlerEnds(t)
    \/ \E t \in Tasks : Wake(t)
    \/ \E t \in Tasks : Return(t)
    \/ \E i \in Pair : MonitorStep(i)

SpecPair == InitPair /\ [][NextPair]_vars

---------------------------------------------------------------------------
(* Specification of the PluginManager and the plugins it holds *)

\* The instances held in self.plugins
Loaded == {plugins[k].id : k \in 1..Len(plugins)}

\* The instance ids not in use: no entry of self.plugins and no call in
\* progress refers to the instance
FreeSlots ==
    {i \in InstIds :
        /\ i \notin Loaded
        /\ \A t \in Tasks : tasks[t].pc = "idle" \/ tasks[t].inst # i}

\* Task t calls load_plugin and runs into the sleep of initialize
LoadPlugin(t) ==
    \E in \in LoadInputs : \E outcome \in InitializeOutcomes(in.name, in.config) :
      LET c == LoadPluginCall(plugins, in.name, outcome)
          i == IF c.new THEN CHOOSE k \in FreeSlots : \A j \in FreeSlots : k <= j
               ELSE 0
          s0 == IF c.new
                THEN [State EXCEPT
                        !.inst[i] = Construct(in.name, in.config, mgr_handlers)]
                ELSE State
      IN  /\ Caller(t)
          /\ nops < MaxOps
          /\ c.new => FreeSlots # {}
          /\ nops' = nops + 1
          /\ Commit(Run([s0 EXCEPT !.tasks[t] =
                  [pc |-> "run", inst |-> i,
                   op |-> [NoOp EXCEPT !.name = "load_plugin", !.plugin = in.name,
                                       !.reg = in.name \in PluginNames(plugins)],
                   todo |-> c.todo, em |-> NoEmission, res |-> "pending",
                   out |-> EmptyMap]], t))
          /\ UNCHANGED mgr_handlers

\* What a method of an instance does: it returns True or False, or raises
Outcomes == {"true", "false", "raised"}

\* Task t calls unload_plugin
UnloadPlugin(t) ==
    \E name \in PluginClasses : \E outcome \in Outcomes :
      LET reg == name \in PluginNames(plugins)
          i == IF reg THEN PluginId(plugins, name) ELSE 0
          pl == IF reg THEN inst[i] ELSE NoInstance
      IN  /\ Caller(t)
          /\ nops < MaxOps
          /\ nops' = nops + 1
          /\ Commit(Run([State EXCEPT !.tasks[t] =
                  [pc |-> "run", inst |-> i,
                   op |-> [NoOp EXCEPT !.name = "unload_plugin", !.plugin = name,
                                       !.reg = reg],
                   todo |-> UnloadPluginCall(plugins, name, pl, outcome),
                   em |-> NoEmission, res |-> "pending", out |-> EmptyMap]], t))
          /\ UNCHANGED mgr_handlers

\* Task t calls an operation of the manager that loops over self.plugins;
\* outcomes says, for each loaded name, what the method of the instance
\* called by the loop does
ManagerLoop(t, name, kind, outcomes) ==
    /\ Caller(t)
    /\ nops < MaxOps
    /\ nops' = nops + 1
    /\ Commit(Run([State EXCEPT !.tasks[t] =
            [pc |-> "run", inst |-> 0,
             op |-> [NoOp EXCEPT
                       !.name = name, !.props = outcomes,
                       !.reg = \E i \in Loaded :
                                  inst[i].status \in {"stopped", "error"}],
             todo |-> <<IIter(kind, 0, Len(plugins))>>, em |-> NoEmission,
             res |-> "pending", out |-> EmptyMap]], t))
    /\ UNCHANGED mgr_handlers

\* discover_all_devices (manager.py:236-248)
DiscoverAllDevices(t) ==
    \E f \in [PluginNames(plugins) -> {"list", "raised"}] :
        ManagerLoop(t, "discover_all_devices", "discover", f)

\* start_all_plugins (manager.py:202-207)
StartAllPlugins(t) ==
    \E f \in [PluginNames(plugins) -> Outcomes] :
        ManagerLoop(t, "start_all_plugins", "start", f)

\* stop_all_plugins (manager.py:209-214)
StopAllPlugins(t) ==
    \E f \in [PluginNames(plugins) -> Outcomes] :
        ManagerLoop(t, "stop_all_plugins", "stop", f)

\* shutdown (manager.py:284-287): the loop of stop_all_plugins, whose result
\* is dropped; the flag _running it clears is read nowhere
Shutdown(t) ==
    \E f \in [PluginNames(plugins) -> Outcomes] :
        ManagerLoop(t, "shutdown", "stop", f)

\* get_system_status (manager.py:267-282)
GetSystemStatus(t) ==
    /\ Caller(t)
    /\ nops < MaxOps
    /\ nops' = nops + 1
    /\ Commit(Run([State EXCEPT !.tasks[t] =
            [pc |-> "run", inst |-> 0,
             op |-> [NoOp EXCEPT !.name = "get_system_status"],
             todo |-> <<IReport, IRet("map")>>, em |-> NoEmission,
             res |-> "pending", out |-> EmptyMap]], t))
    /\ UNCHANGED mgr_handlers

\* PluginManager.add_event_handler (manager.py:250-256)
MgrAddEventHandler(h) ==
    /\ Settled
    /\ nops < MaxOps
    /\ Len(mgr_handlers) < MaxHandlers
    /\ \A i \in Loaded : Len(inst[i].handlers) < MaxHandlers
    /\ nops' = nops + 1
    /\ mgr_handlers' = Append(mgr_handlers, h)
    /\ inst' = [i \in InstIds |->
                  IF i \in Loaded THEN [inst[i] EXCEPT !.handlers = Append(@, h)]
                  ELSE inst[i]]
    /\ tasks' = MarkMutated(tasks, Loaded)
    /\ UNCHANGED <<plugins, nemit, seen>>

\* PluginManager.remove_event_handler (manager.py:258-265)
MgrRemoveEventHandler(h) ==
    /\ Settled
    /\ nops < MaxOps
    /\ InList(mgr_handlers, h) \/ \E i \in Loaded : InList(inst[i].handlers, h)
    /\ nops' = nops + 1
    /\ mgr_handlers' = RemoveFirst(mgr_handlers, h)
    /\ inst' = [i \in InstIds |->
                  IF i \in Loaded THEN [inst[i] EXCEPT !.handlers = RemoveFirst(@, h)]
                  ELSE inst[i]]
    /\ tasks' = MarkMutated(tasks, {i \in Loaded : InList(inst[i].handlers, h)})
    /\ UNCHANGED <<plugins, nemit, seen>>

\* PluginManager.__init__ (manager.py:21-29), with the classes registered
InitMgr ==
    /\ inst = [i \in InstIds |-> NoInstance]
    /\ plugins = <<>>
    /\ mgr_handlers = <<>>
    /\ tasks = [t \in Tasks |-> IdleTask]
    /\ nemit = 0
    /\ seen = [h \in Handlers |-> [d \in AllIds |-> 0]]
    /\ nops = 0

NextMgr ==
    \/ \E t \in Tasks : LoadPlugin(t)
    \/ \E t \in Tasks : UnloadPlugin(t)
    \/ \E t \in Tasks : DiscoverAllDevices(t)
    \/ \E t \in Tasks : StartAllPlugins(t)
    \/ \E t \in Tasks : StopAllPlugins(t)
    \/ \E t \in Tasks : GetSystemStatus(t)
    \/ \E t \in Tasks : Shutdown(t)
    \/ \E h \in Handlers : MgrAddEventHandler(h)
    \/ \E h \in Handlers : MgrRemoveEventHandler(h)
    \/ \E t \in Tasks : \E i \in Loaded : CallAddDevice(t, i)
    \/ \E t \in Tasks : \E i \in Loaded : CallUpdateDeviceState(t, i)
    \/ \E t \in Tasks : HandlerEnds(t)
    \/ \E t \in Tasks : Wake(t)
    \/ \E t \in Tasks : Return(t)

SpecMgr == InitMgr /\ [][NextMgr]_vars

---------------------------------------------------------------------------
(* Properties of the device registry and of the event bus *)

\* Task t makes a call in this step
CallStep(t) == tasks[t].pc = "idle" /\ tasks'[t].pc # "idle"

\* The call of task t ends in this step
EndStep(t) == tasks[t].pc # "done" /\ tasks'[t].pc = "done"

\* The emission of task t has ended
Emitted(tk) == tk.em.ev > 0 /\ ~tk.em.on

\* C1: a device that add_device registers has no state until
\* update_device_state is applied to it; update_device_state(d, p) on a
\* registered device stores exactly p as the property map (nothing of the
\* previous map is kept) and returns true, and returns true in no other case.
C1_UpdateReplaces ==
    [][\A t \in Tasks :
         LET op == tasks'[t].op
             pl == inst'[tasks'[t].inst]
         IN  /\ CallStep(t) /\ op.name = "add_device" /\ ~op.reg
                  => GetDeviceState(pl, op.dev) = Absent
             /\ CallStep(t) /\ op.name = "update_device_state" /\ op.reg
                  => GetDeviceState(pl, op.dev).properties = op.props
             /\ EndStep(t) /\ op.name = "update_device_state"
                  => (tasks'[t].res = "true" <=> op.reg)]_vars

\* C1 witness: update_device_state has returned true on a device and the
\* stored map is the one-key map it was given
C1_Witness ==
    \E t \in Tasks :
        /\ tasks[t].pc = "done" /\ tasks[t].res = "true"
        /\ tasks[t].op.name = "update_device_state"
        /\ tasks[t].op.props = [power |-> TRUE]
        /\ GetDeviceState(inst[tasks[t].inst], tasks[t].op.dev).properties
             = [power |-> TRUE]

\* C2: once remove_device(d) has acted, d has no state and no descriptor,
\* whether d was registered or not; it returns true exactly when d was
\* registered.
C2_RemoveClearsState ==
    [][\A t \in Tasks :
         LET op == tasks'[t].op
             pl == inst'[tasks'[t].inst]
         IN  /\ CallStep(t) /\ op.name = "remove_device"
                  => /\ GetDeviceState(pl, op.dev) = Absent
                     /\ op.dev \notin DOMAIN pl.devices
             /\ EndStep(t) /\ op.name = "remove_device"
                  => (tasks'[t].res = "true" <=> op.reg)]_vars

\* C2 witness: remove_device has returned true for a registered device while
\* another device still has its state
C2_Witness ==
    \E t \in Tasks :
        /\ tasks[t].pc = "done" /\ tasks[t].res = "true"
        /\ tasks[t].op.name = "remove_device" /\ tasks[t].op.reg
        /\ GetDeviceState(inst[tasks[t].inst], tasks[t].op.dev) = Absent
        /\ DOMAIN inst[tasks[t].inst].device_states # {}

\* C3: a load_plugin of a name that is already loaded returns true at once,
\* constructs no instance, and leaves the loaded instance and the table of
\* loaded plugins as they are.
C3_LoadIdempotent ==
    [][\A t \in Tasks :
         CallStep(t) /\ tasks'[t].op.name = "load_plugin" /\ tasks'[t].op.reg
            => /\ tasks'[t].pc = "done" /\ tasks'[t].res = "true"
               /\ UNCHANGED <<inst, plugins>>]_vars

\* C3 witness: load_plugin of a loaded name has returned true; the loaded
\* instance holds a device and an unused instance id remains
C3_Witness ==
    \E t \in Tasks :
        /\ tasks[t].pc = "done" /\ tasks[t].res = "true"
        /\ tasks[t].op.name = "load_plugin" /\ tasks[t].op.reg
        /\ tasks[t].op.plugin \in PluginNames(plugins)
        /\ DOMAIN inst[PluginId(plugins, tasks[t].op.plugin)].devices # {}
        /\ FreeSlots # {}

\* C4 (as claimed): when start() has ended it has returned true with the
\* status RUNNING, or false with the status ERROR.
C4_StartOutcome ==
    \A t \in Tasks :
        tasks[t].pc = "done" /\ tasks[t].op.name = "start"
            => \/ tasks[t].res = "true" /\ inst[tasks[t].inst].status = "running"
               \/ tasks[t].res = "false" /\ inst[tasks[t].inst].status = "error"

\* The value a registry call returns when no handler fails
NormalResult(cls, op) ==
    CASE op.name = "add_device" -> "true"
      [] op.name \in {"remove_device", "update_device_state"} ->
           IF op.reg THEN "true" ELSE "false"
      [] op.name = "execute_action" ->
           IF op.reg /\ op.action \in RecognizedActions(cls) THEN "true" ELSE "false"
      [] op.name = "discover_devices" -> "list"

RegistryCalls == {"add_device", "remove_device", "update_device_state",
                  "execute_action", "discover_devices"}

\* C5: an emission whose handler list was not changed meanwhile reaches every
\* handler of the list, those after a handler that raised included, and the
\* call that emitted returns its normal result.
C5_FailureIsolated ==
    \A t \in Tasks :
        /\ Emitted(tasks[t]) /\ ~tasks[t].em.mut
             => tasks[t].em.log = tasks[t].em.snap
        /\ tasks[t].pc = "done" /\ tasks[t].op.name \in RegistryCalls
             => tasks[t].res = NormalResult(inst[tasks[t].inst].cls, tasks[t].op)

\* C5 witness: the first of two handlers raised, the second one received the
\* event and the call returned true
C5_Witness ==
    \E t \in Tasks :
        /\ tasks[t].pc = "done" /\ tasks[t].res = "true"
        /\ Emitted(tasks[t])
        /\ Len(tasks[t].em.snap) = 2 /\ Raises(tasks[t].em.snap[1])
        /\ tasks[t].em.log = tasks[t].em.snap

\* C6 (as claimed): every emission delivers the event exactly once to each
\* handler that was registered when it started, whatever is added or removed
\* while it runs.
C6_SnapshotDelivery ==
    \A t \in Tasks : Emitted(tasks[t]) => tasks[t].em.log = tasks[t].em.snap

\* C7: within one emission the handlers are invoked one after the other in
\* registration order: each turn of the loop invokes one handler, the handlers
\* invoked so far are the first ones of the list, and while the emission
\* waits for a coroutine handler it invokes nothing until that handler ends.
C7_OrderedSequential ==
    [][\A t \in Tasks :
         LET a == tasks[t].em
             b == tasks'[t].em
         IN  /\ b.ev > 0 => /\ b.idx = Len(b.log)
                            /\ ~b.mut => b.log = SubSeq(b.snap, 1, Len(b.log))
             /\ tasks[t].pc = "handler" /\ (b.log # a.log \/ b.ev # a.ev)
                  => HandlerEnds(t)]_vars

\* C7 witness: an emission has invoked the coroutine handler, waited for it,
\* and then invoked the second handler of the list
C7_Witness ==
    \E t \in Tasks :
        /\ Emitted(tasks[t]) /\ ~tasks[t].em.mut
        /\ tasks[t].em.log = <<"h_coro", "h_raise">>

\* C8 (as claimed): every handler receives the state_changed events of one
\* device in the order in which the updates were applied to the registry.
\* seen[h][d] is the number of the last such event h received; the events
\* are numbered in the order of the registry writes.  Stated for the
\* handlers that are registered once, and while no handler list has changed
\* during the calls that are running.
C8_DeliveryOrder ==
    [][\A h \in Handlers :
         /\ \A t \in Tasks : ~tasks'[t].op.mut
         /\ \A i \in InstIds : Occurrences(inst'[i].handlers, h) <= 1
         => \A d \in AllIds : seen'[h][d] >= seen[h][d]]_vars

\* C9: execute_action on a device id that is not registered returns false at
\* once, changes no instance and emits and delivers no event.
C9_UnknownDevice ==
    [][\A t \in Tasks :
         CallStep(t) /\ tasks'[t].op.name = "execute_action" /\ ~tasks'[t].op.reg
            => /\ tasks'[t].pc = "done" /\ tasks'[t].res = "false"
               /\ tasks'[t].op.nem = 0
               /\ UNCHANGED <<inst, nemit, seen>>]_vars

\* C9 witness: execute_action on the unknown id has returned false while
\* devices are registered and have a state
C9_Witness ==
    \E t \in Tasks :
        /\ tasks[t].pc = "done" /\ tasks[t].res = "false"
        /\ tasks[t].op.name = "execute_action" /\ tasks[t].op.dev = UnknownId
        /\ DOMAIN inst[tasks[t].inst].device_states # {}
        /\ inst[tasks[t].inst].handlers # <<>>

ExpectedOut(outcomes, good, yes, no) ==
    [n \in DOMAIN outcomes |-> IF outcomes[n] = good THEN yes ELSE no]

\* C11: discover_all_devices returns a map with one key per loaded instance:
\* the key of an instance whose discover_devices raised maps to the empty
\* list and every other key to the list of its instance.  The exception of an
\* instance does not reach the caller: a call that ran without suspension
\* returns the map.
C11_DiscoverAllIsolated ==
    [][\A t \in Tasks :
         tasks'[t].op.name = "discover_all_devices"
            => /\ CallStep(t) /\ tasks'[t].pc = "done" => tasks'[t].res = "map"
               /\ EndStep(t) /\ tasks'[t].res = "map"
                    => tasks'[t].out =
                         ExpectedOut(tasks'[t].op.props, "list", "list", "empty")]_vars

\* C11 witness: two instances are loaded, discover_devices of the first one
\* raised, and the map holds the empty list for it and the list of the other
C11_Witness ==
    \E t \in Tasks :
        /\ tasks[t].pc = "done" /\ tasks[t].res = "map"
        /\ tasks[t].op.name = "discover_all_devices"
        /\ Len(plugins) = 2
        /\ tasks[t].out[plugins[1].name] = "empty"
        /\ tasks[t].out[plugins[2].name] = "list"
        /\ "custom_001" \in DOMAIN inst[plugins[2].id].devices

\* C12: start_all_plugins and stop_all_plugins return a map with exactly one
\* entry per loaded instance; the entry of an instance is true when its start
\* (stop) returned true and false when it returned false or raised, whatever
\* the other instances did, and every instance whose start succeeded is
\* started.
C12_StartStopAllIndependent ==
    \A t \in Tasks :
        tasks[t].pc = "done"
        /\ tasks[t].op.name \in {"start_all_plugins", "stop_all_plugins"}
            => /\ tasks[t].res = "map"
               /\ tasks[t].out = ExpectedOut(tasks[t].op.props, "true", "true", "false")
               /\ \A k \in 1..Len(plugins) :
                     tasks[t].op.props[plugins[k].name] = "true"
                        => inst[plugins[k].id].status =
                             IF tasks[t].op.name = "start_all_plugins"
                             THEN "running" ELSE "stopped"

\* C12 witness: two instances are loaded, start of the first one raised and
\* start of the second one succeeded: the map holds false and true and the
\* second instance is running
C12_Witness ==
    \E t \in Tasks :
        /\ tasks[t].pc = "done" /\ tasks[t].op.name = "start_all_plugins"
        /\ Len(plugins) = 2
        /\ tasks[t].op.props[plugins[1].name] = "raised"
        /\ tasks[t].out[plugins[1].name] = "false"
        /\ tasks[t].out[plugins[2].name] = "true"
        /\ inst[plugins[2].id].status = "running"

\* C13 (as claimed): add_device returns true exactly when the id was not in
\* the registry, and an add_device with an id that is present leaves the
\* stored descriptor as it was.
C13_AddOnlyIfAbsent ==
    [][\A t \in Tasks :
         LET op == tasks'[t].op
             i == tasks'[t].inst
         IN  /\ EndStep(t) /\ op.name = "add_device"
                  => (tasks'[t].res = "true" <=> ~op.reg)
             /\ CallStep(t) /\ op.name = "add_device" /\ op.reg
                  => inst'[i].devices[op.dev] = inst[i].devices[op.dev]]_vars

\* C14: update_device_state on an id that is not registered returns false at
\* once, creates no state, changes nothing and emits no event; on a
\* registered id it stores the state and emits exactly one event, of type
\* state_changed.
C14_UpdateUnregisteredNoOp ==
    [][\A t \in Tasks :
         LET op == tasks'[t].op
             pl == inst'[tasks'[t].inst]
         IN  op.name = "update_device_state"
             => /\ CallStep(t) /\ ~op.reg
                     => /\ tasks'[t].pc = "done" /\ tasks'[t].res = "false"
                        /\ op.nem = 0
                        /\ op.dev \notin DOMAIN pl.device_states
                        /\ UNCHANGED <<inst, nemit, seen>>
                /\ CallStep(t) /\ op.reg
                     => /\ op.dev \in DOMAIN pl.device_states
                        /\ nemit' = nemit + 1
                        /\ tasks'[t].em.type = "state_changed"
                        /\ tasks'[t].em.dev = op.dev
                /\ EndStep(t) /\ op.reg => op.nem = 1]_vars

\* C14 witness: update_device_state on the unknown id has returned false
\* while another device is registered, has a state and handlers are attached
C14_Witness ==
    \E t \in Tasks :
        /\ tasks[t].pc = "done" /\ tasks[t].res = "false"
        /\ tasks[t].op.name = "update_device_state"
        /\ tasks[t].op.dev = UnknownId
        /\ DOMAIN inst[tasks[t].inst].device_states # {}
        /\ inst[tasks[t].inst].handlers # <<>>

\* C15 (as claimed): an initialize() that has ended has returned true, or
\* has returned false with the status ERROR; it has not raised.
C15_InitializeFailure ==
    \A t \in Tasks :
        tasks[t].pc = "done" /\ tasks[t].op.name = "initialize"
            => \/ tasks[t].res = "true"
               \/ tasks[t].res = "false" /\ inst[tasks[t].inst].status = "error"

\* The transitions of the status state machine
StatusTransitions ==
    {<<"loaded", "running">>, <<"running", "stopped">>,
     <<"loaded", "error">>, <<"running", "error">>,
     <<"stopped", "running">>, <<"error", "running">>}
    \cup {<<x, "disabled">> : x \in PluginStatus}

C18_StopSynchronous ==
    [][\A t \in Tasks :
         CallStep(t) /\ tasks'[t].op.name = "stop"
            => inst'[tasks'[t].inst].status = "stopped"]_vars

C17_UnloadStopsFirst ==
    [][\A t \in Tasks :
         CallStep(t) /\ tasks'[t].op.name = "unload_plugin"
            => IF tasks'[t].op.reg
               THEN tasks'[t].res = "true"
                       => /\ tasks'[t].op.plugin \notin PluginNames(plugins')
                          /\ inst'[tasks'[t].inst].status # "running"
               ELSE /\ tasks'[t].res = "false"
                    /\ plugins' = plugins /\ inst' = inst]_vars

\* C20 (as claimed): while no load_plugin call is in progress (the handler
\* operations of the manager are single steps), every instance stored in the
\* manager has every handler of the global list of the manager.
C20_HandlersAttached ==
    (\A t \in Tasks : tasks[t].op.name # "load_plugin")
        => \A i \in Loaded : \A k \in 1..Len(mgr_handlers) :
              InList(inst[i].handlers, mgr_handlers[k])

\* The sum of f[x] over the finite set S
RECURSIVE SumOver(_, _)
SumOver(f, S) ==
    IF S = {} THEN 0
    ELSE LET x == CHOOSE y \in S : TRUE IN f[x] + SumOver(f, S \ {x})

\* C21: the dict get_system_status returns has total_plugins, the number of
\* loaded instances; running_plugins, the number of them that are RUNNING;
\* total_devices, the sum of the sizes of their registries; and one
\* health_check entry per loaded name, whose devices_count values sum to
\* total_devices; running_plugins is at most total_plugins.
C21_SystemStatus ==
    \A t \in Tasks :
        tasks[t].pc = "done" /\ tasks[t].op.name = "get_system_status"
            => LET st == tasks[t].out
                   size == [i \in Loaded |-> Cardinality(DOMAIN inst[i].devices)]
                   count == [n \in DOMAIN st.plugins |-> st.plugins[n].devices_count]
               IN  /\ st.total_plugins = Cardinality(Loaded)
                   /\ st.running_plugins =
                        Cardinality({i \in Loaded : inst[i].status = "running"})
                   /\ st.total_devices = SumOver(size, Loaded)
                   /\ DOMAIN st.plugins = PluginNames(plugins)
                   /\ st.running_plugins <= st.total_plugins
                   /\ SumOver(count, DOMAIN st.plugins) = st.total_devices

\* C21 witness: get_system_status has reported two loaded instances, one of
\* them RUNNING
C21_Witness ==
    \E t \in Tasks :
        /\ tasks[t].pc = "done" /\ tasks[t].op.name = "get_system_status"
        /\ tasks[t].out.total_plugins = 2
        /\ tasks[t].out.running_plugins = 1

\* The event types of the contract
EventTypes == {"device_added", "device_removed", "state_changed",
               "action_executed", "error"}

\* C22 (as claimed): every event delivered to a handler carries the name of
\* the instance that produced it and a type of the fixed set of event types.
C22_EventShape ==
    \A t \in Tasks :
        tasks[t].em.log # <<>>
            => /\ tasks[t].em.plugin = inst[tasks[t].inst].cls
               /\ tasks[t].em.type \in EventTypes

\* C23 (as claimed): discover_devices, which discover_all_devices calls on
\* every loaded instance (manager.py:242), leaves the property map of every
\* existing device state as it was.
C23_DiscoverReadOnly ==
    [][\A t \in Tasks :
         CallStep(t) /\ tasks'[t].op.name = "discover_devices"
            => LET i == tasks'[t].inst IN
               \A d \in DOMAIN inst[i].device_states :
                  GetDeviceState(inst'[i], d).properties
                     = inst[i].device_states[d].properties]_vars

\* The operations of the plugin contract
ContractCalls == {"initialize", "start", "stop", "discover_devices",
                  "execute_action", "add_device", "remove_device",
                  "update_device_state"}

\* C24 (as claimed): no call of an operation of the plugin contract ends
\* with an exception that reaches its caller.
C24_NoFaultCrosses ==
    \A t \in Tasks :
        tasks[t].op.name \in ContractCalls => tasks[t].res # "raised"

\* C25: on a lighting instance, execute_action(d, "turn_on", {brightness: b})
\* on a registered device d stores a state with power = true and
\* brightness = b before it reaches a suspension point, and returns true.
C25_TurnOn ==
    [][\A t \in Tasks :
         LET op == tasks'[t].op
             pl == inst'[tasks'[t].inst]
         IN  op.name = "execute_action" /\ op.action = "turn_on" /\ op.reg
             /\ "brightness" \in DOMAIN op.props /\ pl.cls = "philips_hue"
                => /\ CallStep(t) =>
                        LET st == GetDeviceState(pl, op.dev).properties
                        IN  /\ {"power", "brightness"} \subseteq DOMAIN st
                            /\ st.power = TRUE
                            /\ st.brightness = op.props.brightness
                   /\ EndStep(t) => tasks'[t].res = "true"]_vars

\* C25 witness: the two lights were discovered and seeded, and a turn_on
\* with a brightness has returned true on the first one
C25_Witness ==
    \E t \in Tasks :
        /\ tasks[t].pc = "done" /\ tasks[t].res = "true"
        /\ tasks[t].op.name = "execute_action" /\ tasks[t].op.action = "turn_on"
        /\ tasks[t].op.props = [brightness |-> 150]
        /\ DOMAIN inst[tasks[t].inst].devices = HueIds
        /\ DOMAIN inst[tasks[t].inst].device_states = HueIds
        /\ GetDeviceState(inst[tasks[t].inst], tasks[t].op.dev).properties
             = [power |-> TRUE, brightness |-> 150, color |-> "#FFFFFF"]
        /\ GetDeviceState(inst[tasks[t].inst], "hue_light_002").properties
             = InitialProps("philips_hue", "hue_light_002")

\* C26 (as claimed): a load_plugin(name) that ends has returned true exactly
\* when an instance is stored under name at that point, and one that returns
\* false ends with the loaded instances as they were.
C26_LoadResult ==
    [][\A t \in Tasks :
         EndStep(t) /\ tasks'[t].op.name = "load_plugin"
            => /\ tasks'[t].res = "true"
                    <=> tasks'[t].op.plugin \in PluginNames(plugins')
               /\ tasks'[t].res = "false"
                    => /\ plugins' = plugins
                       /\ \A i \in Loaded : inst'[i] = inst[i]]_vars

\* C30 (as claimed): two load_plugin calls for the same name are never both
\* suspended in the initialize of an instance of their own: the second call
\* constructs no second instance.
C30_OneConstruction ==
    \A t, u \in Tasks :
        /\ t # u
        /\ tasks[t].op.name = "load_plugin" /\ tasks[u].op.name = "load_plugin"
        /\ tasks[t].op.plugin = tasks[u].op.plugin
        /\ tasks[t].pc = "sleep" /\ tasks[u].pc = "sleep"
        => tasks[t].inst = tasks[u].inst

C28_Isolated ==
    [][\A i \in InstIds :
         inst'[i] # inst[i]
            => /\ \A j \in InstIds \ {i} : inst'[j] = inst[j]
               /\ \A t \in Tasks :
                     tasks'[t].pc # tasks[t].pc /\ tasks'[t].pc # "idle"
                        => tasks'[t].inst = i]_vars

\* C28 witness: the first instance has a registered device with a state, a
\* handler and a monitor task, and the second instance, of the same class, is
\* as it was constructed
C28_Witness ==
    /\ inst[1].cls = inst[2].cls
    /\ DOMAIN inst[1].device_states # {}
    /\ inst[1].handlers # <<>>
    /\ inst[1].monitors > 0
    /\ inst[2] = NewInstance(inst[2].cls, FullConfig)

\* C29 (as claimed): an instance has at most one monitor task that was
\* created and has not ended.
C29_OneMonitor == \A i \in InstIds : inst[i].monitors <= 1

\* The operations of the manager that return an aggregate result
AggregateCalls == {"start_all_plugins", "stop_all_plugins",
                   "discover_all_devices", "get_system_status"}

\* C31 (as claimed): no aggregate operation of the manager ends with an
\* exception that reaches its caller, whatever was loaded or unloaded while
\* it was suspended.
C31_AggregateCompletes ==
    \A t \in Tasks :
        tasks[t].op.name \in AggregateCalls => tasks[t].res # "raised"

\* C32 (as claimed): an event that is built and handed to a handler of the
\* manager is produced by an instance that is loaded: an instance that
\* unload_plugin has discarded produces no further event for them.
C32_NoEventAfterUnload ==
    [][\A t \in Tasks :
         /\ tasks'[t].em.ev # tasks[t].em.ev
         /\ tasks'[t].em.log # <<>>
         /\ InList(mgr_handlers, tasks'[t].em.log[1])
         => tasks'[t].inst \in Loaded]_vars

\* The actions that the specification describes as changing part of a state
PartialActions == {"turn_off", "set_brightness", "set_color", "reset_battery"}

\* C33 (as claimed): a step of an execute_action call with a partial action
\* on a device that has a state keeps every property key of that state.
C33_KeysKept ==
    [][\A t \in Tasks :
         LET op == tasks'[t].op
             i  == tasks'[t].inst
         IN  /\ tasks'[t] # tasks[t]
             /\ op.name = "execute_action" /\ op.action \in PartialActions
             /\ op.dev \in DOMAIN inst[i].device_states
             /\ op.dev \in DOMAIN inst'[i].device_states
             => DOMAIN inst[i].device_states[op.dev].properties
                  \subseteq DOMAIN inst'[i].device_states[op.dev].properties]_vars

Receives(t) == tasks'[t].pc = "handler" /\ tasks'[t] # tasks[t]

\* What the handler that receives event em of instance record pl finds in
\* the registry (state_changed: the state exists; that a later update may have
\* replaced its properties is allowed)
Committed(pl, em, sn) ==
    /\ em.type = "device_added" => em.dev \in DOMAIN pl.devices
    /\ em.type = "state_changed" => em.dev \in DOMAIN pl.device_states
    /\ em.type = "device_removed" =>
           em.dev \notin DOMAIN pl.devices \cup DOMAIN pl.device_states
    /\ em.type = "action_executed" /\ em.result = "true"
         /\ pl.cls = "philips_hue" => sn[em.dev] > 0

\* C35 (as claimed): whenever a handler receives an event, the registry
\* holds the mutation the event reports.
C35_CommittedAtDelivery ==
    [][\A t \in Tasks :
         Receives(t) =>
            Committed(inst'[tasks'[t].inst], tasks'[t].em,
                      seen'[tasks'[t].em.log[Len(tasks'[t].em.log)]])]_vars

\* What a handler finds when it receives event em of task tk's call before
\* that call was suspended since the mutation: the registry of instance
\* record pl holds the mutation, and a successful action that writes a
\* state has emitted its state_changed before its action_executed
CommittedNow(pl, tk) ==
    LET em == tk.em IN
    /\ em.type = "device_added" => em.dev \in DOMAIN pl.devices
    /\ em.type = "state_changed" =>
           /\ em.dev \in DOMAIN pl.device_states
           /\ pl.device_states[em.dev].properties = em.props
    /\ em.type = "device_removed" =>
           em.dev \notin DOMAIN pl.devices \cup DOMAIN pl.device_states
    /\ em.type = "action_executed" /\ em.result = "true"
         /\ tk.op.action # "calibrate" => tk.op.nem = 2

\* C35 (amended): a mutation is committed before its event is built: a
\* handler that receives the event in the step that built it finds the
\* mutation in the registry, and the action_executed event of a successful
\* state-writing action is built after the action's state_changed.
C35_CommittedWhenBuilt ==
    [][\A t \in Tasks :
         Receives(t) /\ tasks'[t].em.ev # tasks[t].em.ev
            => CommittedNow(inst'[tasks'[t].inst], tasks'[t])]_vars

\* C35 witness: a suspending handler holds the device_removed event of a
\* device that had a state, after a handler that raised, and the device and
\* its state are gone.
C35_Witness ==
    \E t \in Tasks :
        /\ tasks[t].pc = "handler" /\ tasks[t].em.type = "device_removed"
        /\ tasks[t].em.log = <<"h_raise", "h_coro">>
        /\ tasks[t].op.name = "remove_device" /\ tasks[t].op.reg
        /\ tasks[t].em.dev \notin DOMAIN inst[tasks[t].inst].devices
        /\ tasks[t].em.dev \notin DOMAIN inst[tasks[t].inst].device_states
        /\ DOMAIN inst[tasks[t].inst].device_states # {}

\* C36: in every state the ids that have a DeviceState are registered ids,
\* and health_check reports no more online devices than devices.
C36_StatesRegistered ==
    \A i \in InstIds :
        /\ DOMAIN inst[i].device_states \subseteq DOMAIN inst[i].devices
        /\ HealthCheck(inst[i]).online_devices <= HealthCheck(inst[i]).devices_count

\* C36 witness: a device that had a state was removed while a discovery was
\* suspended, and the instance is left with a device that has a state and a
\* device that has none.
C36_Witness ==
    \E t, u \in Tasks :
        /\ tasks[t].pc = "done" /\ tasks[t].op.name = "remove_device"
        /\ tasks[t].res = "true"
        /\ tasks[u].op.name = "discover_devices" /\ tasks[u].pc = "handler"
        /\ DOMAIN inst[1].device_states # {}
        /\ DOMAIN inst[1].device_states # DOMAIN inst[1].devices
        /\ tasks[t].op.dev \notin DOMAIN inst[1].devices

\* C37 (as claimed): when the manager's remove_event_handler(h) has taken h
\* out of the manager's list, h is attached to no loaded instance.
C37_HandlerGone ==
    [][\A h \in Handlers :
         Occurrences(mgr_handlers', h) < Occurrences(mgr_handlers, h)
            => \A i \in Loaded : ~InList(inst'[i].handlers, h)]_vars

\* C38 (as claimed): every brightness stored in a Hue device state lies
\* within 0..100.
C38_BrightnessRange ==
    \A i \in InstIds : \A d \in DOMAIN inst[i].device_states :
        LET p == inst[i].device_states[d].properties
        IN  inst[i].cls = "philips_hue" /\ "brightness" \in DOMAIN p
               => p.brightness \in 0..100

\* C39 (as claimed): when shutdown() has returned, no loaded instance has
\* the status RUNNING.
C39_ShutdownStops ==
    \A t \in Tasks :
        tasks[t].pc = "done" /\ tasks[t].op.name = "shutdown"
        /\ tasks[t].res # "raised"
            => \A i \in Loaded : inst[i].status # "running"

=============================================================================
